---- MODULE Spec2Model ----
(***************************************************************************)
(* diffcomps.py: comparison of two comps catalogs (groups of packages and  *)
(* categories of groups).  The module models the catalog classes (Comps,   *)
(* Groups, Categories), the two diff functions (diff_comps, diff_list) and *)
(* the script body that chains them.                                       *)
(*                                                                         *)
(* Encoding of Python values                                               *)
(*   str that is sorted or indexed : sequence of character codes           *)
(*   str that is only compared     : TLA+ string                           *)
(*   None / a value that may be None : <<>> / <<v>>                        *)
(*   dict                          : function, DOMAIN = the keys           *)
(*   list, tuple                   : sequence                              *)
(*   attribute that may not exist  : <<>> (no attribute) / <<v>>           *)
(***************************************************************************)
EXTENDS Integers, Sequences, FiniteSets, TLC

VARIABLES
    pc,                 \* position in the script body (lines 222-252)
    source_xml,         \* the two documents, as the node lists iter(tag) yields
    target_xml,
    source_groups,      \* the four catalogs (dict id -> node_data)
    target_groups,
    source_categories,
    target_categories,
    pkgacc,             \* [side -> Groups._pkgacc], <<>> while the attribute is not set
    grpacc,             \* [side -> Categories._grpacc]
    access,             \* [kind -> [side -> outcome of the last property access]]
    groups_diff,        \* results of the four diff calls, <<>> before the call
    packages_diff,
    categories_diff,
    grouplist_diff,
    stdout,             \* what the script printed, <<>> if nothing
    error               \* the exception that ended the run, "" if none

vars == <<pc, source_xml, target_xml, source_groups, target_groups,
          source_categories, target_categories, pkgacc, grpacc, access,
          groups_diff, packages_diff, categories_diff, grouplist_diff,
          stdout, error>>

-----------------------------------------------------------------------------
(* Python values *)

None == <<>>
Some(v) == <<v>>

NoAttr == <<>>

EmptyDict == [k \in {} |-> {}]

\* dict.get(key): None for a missing key
dict_get(d, key) == IF key \in DOMAIN d THEN d[key] ELSE None

\* d[key] = value
dict_set(d, key, value) ==
    [k \in DOMAIN d \cup {key} |-> IF k = key THEN value ELSE d[k]]

\* defaultdict.__getitem__: a missing key is first inserted with the default
dd_getitem(d, key, default) ==
    IF key \in DOMAIN d
    THEN [value |-> d[key], dict |-> d]
    ELSE [value |-> default, dict |-> dict_set(d, key, default)]

\* Python 2 ordering of str: by character code, a proper prefix first
StrLess(a, b) ==
    \E i \in 1..(Len(a) + 1) :
        /\ \A j \in 1..(i - 1) : j <= Len(b) /\ a[j] = b[j]
        /\ \/ i = Len(a) + 1 /\ Len(b) >= i
           \/ i <= Len(a) /\ i <= Len(b) /\ a[i] < b[i]

\* Python 2 ordering of None and str: None is smaller than every str
OptLess(a, b) ==
    IF a = None THEN b # None ELSE b # None /\ StrLess(a[1], b[1])

\* Python 2 ordering of the tuples (group_id, requires, type): lexicographic
TupLess(a, b) ==
    \/ StrLess(a[1], b[1])
    \/ a[1] = b[1] /\ OptLess(a[2], b[2])
    \/ a[1] = b[1] /\ a[2] = b[2] /\ OptLess(a[3], b[3])

\* the comparison sorted() uses, by the runtime type of the elements
PyLess(elem, a, b) ==
    CASE elem = "str" -> StrLess(a, b)
      [] elem = "opt" -> OptLess(a, b)
      [] elem = "tuple" -> TupLess(a, b)

\* list(iterable) of a set: the elements once each, in the set's own order.
\* Every use below sorts the list or folds it into a set, so one order stands
\* for all of them.
RECURSIVE list(_)
list(S) ==
    IF S = {} THEN <<>>
    ELSE LET x == CHOOSE y \in S : TRUE IN <<x>> \o list(S \ {x})

\* sorted(iterable): ascending, duplicates kept
RECURSIVE sorted(_, _)
sorted(elem, s) ==
    IF s = <<>> THEN <<>>
    ELSE LET rest == sorted(elem, Tail(s))
             x == Head(s)
             k == Cardinality({i \in 1..Len(rest) : PyLess(elem, rest[i], x)})
         IN SubSeq(rest, 1, k) \o <<x>> \o SubSeq(rest, k + 1, Len(rest))

\* operator.itemgetter(0): the first field of a tuple, the first character
\* (a str of length one) of a str
itemgetter0(elem, x) == IF elem = "tuple" THEN x[1] ELSE <<x[1]>>

\* the keys collected into a set before they are listed
map_itemgetter0_unique(elem, s) ==
    list({itemgetter0(elem, s[i]) : i \in 1..Len(s)})

\* map(function, iterable) with itemgetter(0)
map_itemgetter0(elem, s) == [i \in 1..Len(s) |-> itemgetter0(elem, s[i])]

Range(s) == {s[i] : i \in 1..Len(s)}

-----------------------------------------------------------------------------
(* The catalog classes.  A document node is                                *)
(*   [id, name, description, tags, list]                                   *)
(* name/description: the <name>/<description> elements in document order,  *)
(*   each [items |-> its attributes as (key, value) pairs, text |-> text]; *)
(* tags: the scalar child elements present, tag -> element.text;           *)
(* list: NoAttr without <packagelist>/<grouplist>, else <<its entries>>.   *)
(* node_data is [names, descriptions, attrs, members]: attrs holds the     *)
(* keys set at lines 68/106, members the key 'packages'/'groups'           *)
(* (NoAttr when the key was never set).                                    *)

GroupsATTRS == <<"default", "uservisible", "langonly">>
CategoriesATTRS == <<"display_order">>

\* python -O: assert statements are not compiled in
assert_stripped(cond) == TRUE

\* assert cond: TRUE when execution continues
assert_stmt(cond) == cond

\* lines 24-29 and 33-38: one loop over the text elements of a node
RECURSIVE text_loop(_, _)
text_loop(elements, names) ==
    IF elements = <<>> THEN [raised |-> FALSE, value |-> names]
    ELSE LET attrs == Head(elements).items
             lang == IF attrs # <<>> THEN Some(attrs[1][2]) ELSE None
         IN IF ~assert_stmt(lang \notin DOMAIN names)
            THEN [raised |-> TRUE, value |-> names]
            ELSE text_loop(Tail(elements),
                           dict_set(names, lang, Head(elements).text))

Comps_parse_node(node) ==
    LET names == text_loop(node.name, EmptyDict)
        descriptions == text_loop(node.description, EmptyDict)
    IN [raised |-> names.raised \/ descriptions.raised,
        id |-> node.id,
        data |-> [names |-> names.value, descriptions |-> descriptions.value,
                  attrs |-> EmptyDict, members |-> NoAttr]]

\* lines 65-68 and 103-106
scalar_attrs(node, ATTRS) ==
    [tag \in {t \in Range(ATTRS) : t \in DOMAIN node.tags} |-> node.tags[tag]]

Groups_parse_node(node) ==
    LET super == Comps_parse_node(node)
        packages == IF node.list = NoAttr THEN NoAttr
                    ELSE Some([i \in 1..Len(node.list[1]) |->
                                 [name |-> node.list[1][i].text,
                                  requires |-> node.list[1][i].requires,
                                  type |-> node.list[1][i].type]])
    IN [super EXCEPT !.data.attrs = scalar_attrs(node, GroupsATTRS),
                     !.data.members = packages]

Categories_parse_node(node) ==
    LET super == Comps_parse_node(node)
        groups == IF node.list = NoAttr THEN NoAttr ELSE Some(node.list[1])
    IN [super EXCEPT !.data.attrs = scalar_attrs(node, CategoriesATTRS),
                     !.data.members = groups]

\* Comps._parse over the nodes iter(tag) yields; self is the dict so far
RECURSIVE Comps_parse(_, _, _)
Comps_parse(tag, nodes, self) ==
    IF nodes = <<>> THEN [raised |-> FALSE, self |-> self]
    ELSE LET parsed == IF tag = "group" THEN Groups_parse_node(Head(nodes))
                       ELSE Categories_parse_node(Head(nodes))
         IN IF parsed.raised \/ ~assert_stmt(parsed.id \notin DOMAIN self)
            THEN [raised |-> TRUE, self |-> self]
            ELSE Comps_parse(tag, Tail(nodes),
                             dict_set(self, parsed.id, parsed.data))

\* the orders in which iterating a dict can yield its keys
KeyOrders(d) ==
    {o \in [1..Cardinality(DOMAIN d) -> DOMAIN d] : Range(o) = DOMAIN d}

\* the orders the loop of an index property can take: the loop does not run
\* when the attribute exists
LoopOrders(self, attr) ==
    IF attr # NoAttr THEN {<<>>} ELSE KeyOrders(self)

\* lines 90-92: the inner loop of Groups.packages
RECURSIVE packages_inner(_, _, _)
packages_inner(group_id, packages, acc) ==
    IF packages = <<>> THEN acc
    ELSE LET package == Head(packages)
             pkgtup == <<group_id, package.requires, package.type>>
             got == dd_getitem(acc, package.name, {})
         IN packages_inner(group_id, Tail(packages),
                           dict_set(got.dict, package.name,
                                    got.value \cup {pkgtup}))

\* lines 88-92: the loop of Groups.packages over the ids in iteration order;
\* self[group_id]['packages'] raises KeyError when the key was never set
RECURSIVE packages_loop(_, _, _)
packages_loop(self, order, acc) ==
    IF order = <<>> THEN [raised |-> FALSE, acc |-> acc]
    ELSE IF self[Head(order)].members = NoAttr
    THEN [raised |-> TRUE, acc |-> acc]
    ELSE packages_loop(self, Tail(order),
                       packages_inner(Head(order), self[Head(order)].members[1],
                                      acc))

\* Groups.packages: attr is self._pkgacc before the access
Groups_packages(self, attr, order) ==
    IF attr # NoAttr
    THEN [raised |-> FALSE, attr |-> attr]
    ELSE LET loop == packages_loop(self, order, EmptyDict)
         IN [raised |-> loop.raised, attr |-> Some(loop.acc)]

\* lines 126-127: the inner loop of Categories.groups
RECURSIVE groups_inner(_, _, _)
groups_inner(category_id, groups, acc) ==
    IF groups = <<>> THEN acc
    ELSE LET got == dd_getitem(acc, Head(groups), {})
         IN groups_inner(category_id, Tail(groups),
                         dict_set(got.dict, Head(groups),
                                  got.value \cup {category_id}))

RECURSIVE groups_loop(_, _, _)
groups_loop(self, order, acc) ==
    IF order = <<>> THEN [raised |-> FALSE, acc |-> acc]
    ELSE IF self[Head(order)].members = NoAttr
    THEN [raised |-> TRUE, acc |-> acc]
    ELSE groups_loop(self, Tail(order),
                     groups_inner(Head(order), self[Head(order)].members[1],
                                  acc))

\* Categories.groups: attr is self._grpacc before the access
Categories_groups(self, attr, order) ==
    IF attr # NoAttr
    THEN [raised |-> FALSE, attr |-> attr]
    ELSE LET loop == groups_loop(self, order, EmptyDict)
         IN [raised |-> loop.raised, attr |-> Some(loop.acc)]

-----------------------------------------------------------------------------
(* The diff functions *)

\* defaultdict(list): diff[key].append(fact)
dd_append(diff, key, fact) ==
    LET got == dd_getitem(diff, key, <<>>)
    IN dict_set(got.dict, key, Append(got.value, fact))

\* a key whose text changed is not recorded
diff_dicts_no_changes(source_dict, target_dict) ==
    [additions |-> {<<key, target_dict[key]>> :
                       key \in {k \in DOMAIN target_dict :
                                   k \notin DOMAIN source_dict}},
     removals |-> {key \in DOMAIN source_dict : key \notin DOMAIN target_dict},
     changes |-> {}]

\* lines 148-158
diff_dicts(source_dict, target_dict) ==
    [additions |-> {<<key, target_dict[key]>> :
                       key \in {k \in DOMAIN target_dict :
                                   k \notin DOMAIN source_dict}},
     removals |-> {key \in DOMAIN source_dict : key \notin DOMAIN target_dict},
     changes |-> {<<key, source_dict[key], target_dict[key]>> :
                      key \in {k \in DOMAIN source_dict :
                                  /\ k \in DOMAIN target_dict
                                  /\ ~(source_dict[k] = target_dict[k])}}]

\* an attribute is recorded only when the target has a value
RECURSIVE attr_loop_truthy(_, _, _, _)
attr_loop_truthy(attributes, source_data, target_data, attr_dict) ==
    IF attributes = <<>> THEN attr_dict
    ELSE LET attr == Head(attributes)
             source_value == dict_get(source_data.attrs, attr)
             target_value == dict_get(target_data.attrs, attr)
         IN attr_loop_truthy(Tail(attributes), source_data, target_data,
                             IF target_value # None /\ source_value # target_value
                             THEN dict_set(attr_dict, attr, target_value)
                             ELSE attr_dict)

\* lines 174-179
RECURSIVE attr_loop(_, _, _, _)
attr_loop(attributes, source_data, target_data, attr_dict) ==
    IF attributes = <<>> THEN attr_dict
    ELSE LET attr == Head(attributes)
             source_value == dict_get(source_data.attrs, attr)
             target_value == dict_get(target_data.attrs, attr)
         IN attr_loop(Tail(attributes), source_data, target_data,
                      IF source_value # target_value
                      THEN dict_set(attr_dict, attr, target_value)
                      ELSE attr_dict)

\* lines 184-188, for one tag
text_fact(tag, source_dict, target_dict) ==
    LET d == diff_dicts(source_dict, target_dict)
        new == map_itemgetter0("tuple", list(d.additions \cup d.changes))
    IN tag :> [new |-> sorted("opt", new),
               removed |-> sorted("opt", list(d.removals))]

\* the membership test made on the dict being iterated
RECURSIVE diff_comps_new_same_dict(_, _, _)
diff_comps_new_same_dict(ids, source, diff) ==
    IF ids = <<>> THEN diff
    ELSE diff_comps_new_same_dict(Tail(ids), source,
                                  IF Head(ids) \notin Range(ids)
                                  THEN dd_append(diff, Head(ids), "new")
                                  ELSE diff)

\* lines 162-164
RECURSIVE diff_comps_new(_, _, _)
diff_comps_new(ids, source, diff) ==
    IF ids = <<>> THEN diff
    ELSE diff_comps_new(Tail(ids), source,
                        IF Head(ids) \notin DOMAIN source
                        THEN dd_append(diff, Head(ids), "new")
                        ELSE diff)

\* lines 166-188
RECURSIVE diff_comps_source(_, _, _, _, _)
diff_comps_source(ids, source, target, attributes, diff) ==
    IF ids = <<>> THEN diff
    ELSE LET node_id == Head(ids)
             source_data == source[node_id]
         IN IF node_id \notin DOMAIN target
            THEN diff_comps_source(Tail(ids), source, target, attributes,
                                   dd_append(diff, node_id, "removed"))
            ELSE LET target_data == target[node_id]
                     d1 == dd_append(diff, node_id,
                                     attr_loop(attributes, source_data,
                                               target_data, EmptyDict))
                     d2 == dd_append(d1, node_id,
                                     text_fact("names", source_data.names,
                                               target_data.names))
                     d3 == dd_append(d2, node_id,
                                     text_fact("descriptions",
                                               source_data.descriptions,
                                               target_data.descriptions))
                 IN diff_comps_source(Tail(ids), source, target, attributes, d3)

diff_comps(source, target, attributes) ==
    diff_comps_source(list(DOMAIN source), source, target, attributes,
                      diff_comps_new(list(DOMAIN target), source, EmptyDict))

\* lines 196-199
RECURSIVE diff_list_new(_, _, _, _, _)
diff_list_new(elem, items, source, target, diff) ==
    IF items = <<>> THEN diff
    ELSE LET item == Head(items)
             groups == target[item]
         IN diff_list_new(elem, Tail(items), source, target,
                          IF item \notin DOMAIN source
                          THEN dd_append(diff, item,
                                         "new" :> sorted(elem, list(groups)))
                          ELSE diff)

\* the two facts appended in the other order
diff_list_compare_removed_first(elem, item, additions, removals, diff) ==
    LET d1 == IF removals # {}
              THEN dd_append(diff, item,
                             "removed" :>
                                 sorted("str",
                                        map_itemgetter0(elem, list(removals))))
              ELSE diff
    IN IF additions # {}
       THEN dd_append(d1, item, "new" :> sorted(elem, list(additions)))
       ELSE d1

\* lines 213-217
diff_list_compare(elem, item, additions, removals, diff) ==
    LET d1 == IF additions # {}
              THEN dd_append(diff, item, "new" :> sorted(elem, list(additions)))
              ELSE diff
    IN IF removals # {}
       THEN dd_append(d1, item,
                      "removed" :> sorted("str",
                                          map_itemgetter0(elem, list(removals))))
       ELSE d1

\* lines 201-217; the result carries target because target[item] is a
\* defaultdict access
RECURSIVE diff_list_source(_, _, _, _, _)
diff_list_source(elem, items, source, target, diff) ==
    IF items = <<>> THEN [diff |-> diff, source |-> source, target |-> target]
    ELSE LET item == Head(items)
             groups == source[item]
         IN IF item \notin DOMAIN target
            THEN diff_list_source(elem, Tail(items), source, target,
                     dd_append(diff, item,
                               "removed" :>
                                   sorted("str",
                                          map_itemgetter0(elem, list(groups)))))
            ELSE LET got == dd_getitem(target, item, {})
                     target_item == got.value
                 IN diff_list_source(elem, Tail(items), source, got.dict,
                        IF ~(groups = target_item)
                        THEN diff_list_compare(elem, item,
                                               target_item \ groups,
                                               groups \ target_item, diff)
                        ELSE diff)

\* diff_list; elem is the runtime type of the set elements: "tuple" for the
\* package index, "str" for the category index
diff_list(elem, source, target) ==
    diff_list_source(elem, list(DOMAIN source), source, target,
                     diff_list_new(elem, list(DOMAIN target), source, target,
                                   EmptyDict))

-----------------------------------------------------------------------------
(* The script body, lines 222-252 *)

Sides == {"source", "target"}

NoAccess == [packages |-> [side \in Sides |-> "none"],
             groups |-> [side \in Sides |-> "none"]]

\* line 240: diff_list(source_groups.packages, target_groups.packages) with
\* the two property accesses evaluated first, left to right
call_diff_packages(source_order, target_order) ==
    LET s == Groups_packages(source_groups, pkgacc.source, source_order)
        t == Groups_packages(target_groups, pkgacc.target, target_order)
        d == diff_list("tuple", s.attr[1], t.attr[1])
    IN IF s.raised
       THEN [raised |-> TRUE, diff |-> NoAttr,
             attr |-> [pkgacc EXCEPT !.source = s.attr],
             access |-> [access.packages EXCEPT !.source = "KeyError"]]
       ELSE IF t.raised
       THEN [raised |-> TRUE, diff |-> NoAttr,
             attr |-> [source |-> s.attr, target |-> t.attr],
             access |-> [source |-> "returned", target |-> "KeyError"]]
       ELSE [raised |-> FALSE, diff |-> Some(d.diff),
             attr |-> [source |-> Some(d.source), target |-> Some(d.target)],
             access |-> [source |-> "returned", target |-> "returned"]]

\* lines 243-244: diff_list(source_categories.groups, target_categories.groups)
call_diff_grouplist(source_order, target_order) ==
    LET s == Categories_groups(source_categories, grpacc.source, source_order)
        t == Categories_groups(target_categories, grpacc.target, target_order)
        d == diff_list("str", s.attr[1], t.attr[1])
    IN IF s.raised
       THEN [raised |-> TRUE, diff |-> NoAttr,
             attr |-> [grpacc EXCEPT !.source = s.attr],
             access |-> [access.groups EXCEPT !.source = "KeyError"]]
       ELSE IF t.raised
       THEN [raised |-> TRUE, diff |-> NoAttr,
             attr |-> [source |-> s.attr, target |-> t.attr],
             access |-> [source |-> "returned", target |-> "KeyError"]]
       ELSE [raised |-> FALSE, diff |-> Some(d.diff),
             attr |-> [source |-> Some(d.source), target |-> Some(d.target)],
             access |-> [source |-> "returned", target |-> "returned"]]

\* lines 227-228
ParseSourceGroups ==
    /\ pc = "source_groups"
    /\ LET r == Comps_parse("group", source_xml.group, EmptyDict)
       IN /\ source_groups' = r.self
          /\ pc' = IF r.raised THEN "aborted" ELSE "target_groups"
          /\ error' = IF r.raised THEN "AssertionError" ELSE error
    /\ UNCHANGED <<source_xml, target_xml, target_groups, source_categories,
                   target_categories, pkgacc, grpacc, access, groups_diff,
                   packages_diff, categories_diff, grouplist_diff, stdout>>

\* lines 229-230
ParseTargetGroups ==
    /\ pc = "target_groups"
    /\ LET r == Comps_parse("group", target_xml.group, EmptyDict)
       IN /\ target_groups' = r.self
          /\ pc' = IF r.raised THEN "aborted" ELSE "source_categories"
          /\ error' = IF r.raised THEN "AssertionError" ELSE error
    /\ UNCHANGED <<source_xml, target_xml, source_groups, source_categories,
                   target_categories, pkgacc, grpacc, access, groups_diff,
                   packages_diff, categories_diff, grouplist_diff, stdout>>

\* lines 232-233
ParseSourceCategories ==
    /\ pc = "source_categories"
    /\ LET r == Comps_parse("category", source_xml.category, EmptyDict)
       IN /\ source_categories' = r.self
          /\ pc' = IF r.raised THEN "aborted" ELSE "target_categories"
          /\ error' = IF r.raised THEN "AssertionError" ELSE error
    /\ UNCHANGED <<source_xml, target_xml, source_groups, target_groups,
                   target_categories, pkgacc, grpacc, access, groups_diff,
                   packages_diff, categories_diff, grouplist_diff, stdout>>

\* lines 234-235
ParseTargetCategories ==
    /\ pc = "target_categories"
    /\ LET r == Comps_parse("category", target_xml.category, EmptyDict)
       IN /\ target_categories' = r.self
          /\ pc' = IF r.raised THEN "aborted" ELSE "groups_diff"
          /\ error' = IF r.raised THEN "AssertionError" ELSE error
    /\ UNCHANGED <<source_xml, target_xml, source_groups, target_groups,
                   source_categories, pkgacc, grpacc, access, groups_diff,
                   packages_diff, categories_diff, grouplist_diff, stdout>>

\* line 239
DiffGroups ==
    /\ pc = "groups_diff"
    /\ groups_diff' = Some(diff_comps(source_groups, target_groups, GroupsATTRS))
    /\ pc' = "packages_diff"
    /\ UNCHANGED <<source_xml, target_xml, source_groups, target_groups,
                   source_categories, target_categories, pkgacc, grpacc,
                   access, packages_diff, categories_diff, grouplist_diff,
                   stdout, error>>

\* line 240
DiffPackages ==
    /\ pc = "packages_diff"
    /\ \E so \in LoopOrders(source_groups, pkgacc.source),
          to \in LoopOrders(target_groups, pkgacc.target) :
          LET call == call_diff_packages(so, to)
          IN /\ pkgacc' = call.attr
             /\ access' = [access EXCEPT !.packages = call.access]
             /\ packages_diff' = call.diff
             /\ pc' = IF call.raised THEN "aborted" ELSE "categories_diff"
             /\ error' = IF call.raised THEN "KeyError" ELSE error
    /\ UNCHANGED <<source_xml, target_xml, source_groups, target_groups,
                   source_categories, target_categories, grpacc, groups_diff,
                   categories_diff, grouplist_diff, stdout>>

\* lines 241-242
DiffCategories ==
    /\ pc = "categories_diff"
    /\ categories_diff' = Some(diff_comps(source_categories, target_categories,
                                          CategoriesATTRS))
    /\ pc' = "grouplist_diff"
    /\ UNCHANGED <<source_xml, target_xml, source_groups, target_groups,
                   source_categories, target_categories, pkgacc, grpacc,
                   access, groups_diff, packages_diff, grouplist_diff,
                   stdout, error>>

\* lines 243-244
DiffGrouplist ==
    /\ pc = "grouplist_diff"
    /\ \E so \in LoopOrders(source_categories, grpacc.source),
          to \in LoopOrders(target_categories, grpacc.target) :
          LET call == call_diff_grouplist(so, to)
          IN /\ grpacc' = call.attr
             /\ access' = [access EXCEPT !.groups = call.access]
             /\ grouplist_diff' = call.diff
             /\ pc' = IF call.raised THEN "aborted" ELSE "print"
             /\ error' = IF call.raised THEN "KeyError" ELSE error
    /\ UNCHANGED <<source_xml, target_xml, source_groups, target_groups,
                   source_categories, target_categories, pkgacc, groups_diff,
                   packages_diff, categories_diff, stdout>>

\* lines 249-252: the document handed to json.dumps and printed
PrintReport ==
    /\ pc = "print"
    /\ stdout' = Some([groups |-> groups_diff[1],
                       packagelist |-> packages_diff[1],
                       categories |-> categories_diff[1],
                       grouplist |-> grouplist_diff[1]])
    /\ pc' = "done"
    /\ UNCHANGED <<source_xml, target_xml, source_groups, target_groups,
                   source_categories, target_categories, pkgacc, grpacc,
                   access, groups_diff, packages_diff, categories_diff,
                   grouplist_diff, error>>

-----------------------------------------------------------------------------
(* The classes used as a library: a caller holding two catalogs of one     *)
(* kind reads the index property and calls diff_list; an exception returns *)
(* control to the caller.                                                  *)

\* source_groups.packages / target_groups.packages
AccessPackages(side) ==
    /\ pc = "use_groups"
    /\ LET self == IF side = "source" THEN source_groups ELSE target_groups
       IN \E order \in LoopOrders(self, pkgacc[side]) :
             LET r == Groups_packages(self, pkgacc[side], order)
             IN /\ pkgacc' = [pkgacc EXCEPT ![side] = r.attr]
                /\ access' = [access EXCEPT !.packages[side] =
                                 IF r.raised THEN "KeyError" ELSE "returned"]
    /\ UNCHANGED <<pc, source_xml, target_xml, source_groups, target_groups,
                   source_categories, target_categories, grpacc, groups_diff,
                   packages_diff, categories_diff, grouplist_diff, stdout,
                   error>>

\* source_categories.groups / target_categories.groups
AccessGroups(side) ==
    /\ pc = "use_categories"
    /\ LET self == IF side = "source" THEN source_categories
                   ELSE target_categories
       IN \E order \in LoopOrders(self, grpacc[side]) :
             LET r == Categories_groups(self, grpacc[side], order)
             IN /\ grpacc' = [grpacc EXCEPT ![side] = r.attr]
                /\ access' = [access EXCEPT !.groups[side] =
                                 IF r.raised THEN "KeyError" ELSE "returned"]
    /\ UNCHANGED <<pc, source_xml, target_xml, source_groups, target_groups,
                   source_categories, target_categories, pkgacc, groups_diff,
                   packages_diff, categories_diff, grouplist_diff, stdout,
                   error>>

\* diff_list(source_groups.packages, target_groups.packages)
CallDiffPackages ==
    /\ pc = "use_groups"
    /\ \E so \in LoopOrders(source_groups, pkgacc.source),
          to \in LoopOrders(target_groups, pkgacc.target) :
          LET call == call_diff_packages(so, to)
          IN /\ pkgacc' = call.attr
             /\ access' = [access EXCEPT !.packages = call.access]
             /\ packages_diff' = IF call.raised THEN packages_diff
                                 ELSE call.diff
    /\ UNCHANGED <<pc, source_xml, target_xml, source_groups, target_groups,
                   source_categories, target_categories, grpacc, groups_diff,
                   categories_diff, grouplist_diff, stdout, error>>

\* diff_list(source_categories.groups, target_categories.groups)
CallDiffGrouplist ==
    /\ pc = "use_categories"
    /\ \E so \in LoopOrders(source_categories, grpacc.source),
          to \in LoopOrders(target_categories, grpacc.target) :
          LET call == call_diff_grouplist(so, to)
          IN /\ grpacc' = call.attr
             /\ access' = [access EXCEPT !.groups = call.access]
             /\ grouplist_diff' = IF call.raised THEN grouplist_diff
                                  ELSE call.diff
    /\ UNCHANGED <<pc, source_xml, target_xml, source_groups, target_groups,
                   source_categories, target_categories, pkgacc, groups_diff,
                   packages_diff, categories_diff, stdout, error>>

-----------------------------------------------------------------------------
(* Inputs *)

\* "g1", "g2", "c1", "c2", "en", "default", "mandatory" as character codes
g1 == <<103, 49>>
g2 == <<103, 50>>
c1 == <<99, 49>>
c2 == <<99, 50>>
en == <<101, 110>>
default == <<100, 101, 102, 97, 117, 108, 116>>
mandatory == <<109, 97, 110, 100, 97, 116, 111, 114, 121>>

\* the most membership entries (packagereq, groupid) in a pair of catalogs
MaxMembers == 3
\* the most names, descriptions and scalar attributes in a pair of entities
MaxEntries == 3
\* the most entity nodes in a document
MaxNodes == 2

Lists(U, n) == UNION {[1..k -> U] : k \in 0..n}

RECURSIVE SumOver(_, _)
SumOver(f, S) ==
    IF S = {} THEN 0
    ELSE LET k == CHOOSE y \in S : TRUE IN f[k] + SumOver(f, S \ {k})

\* the catalogs over ids whose entities carry only a member list
NodeWith(members) ==
    [names |-> EmptyDict, descriptions |-> EmptyDict, attrs |-> EmptyDict,
     members |-> members]

MemberCount(catalog) ==
    SumOver([id \in DOMAIN catalog |->
                IF catalog[id].members = NoAttr THEN 0
                ELSE Len(catalog[id].members[1])], DOMAIN catalog)

MemberCatalogs(ids, U) ==
    LET nodes == {NodeWith(NoAttr)} \cup
                 {NodeWith(Some(l)) : l \in Lists(U, MaxMembers)}
    IN {c \in UNION {[I -> nodes] : I \in SUBSET ids} :
           MemberCount(c) <= MaxMembers}

Packages ==
    {[name |-> "vim", requires |-> None, type |-> Some(mandatory)],
     [name |-> "vim", requires |-> None, type |-> Some(default)]}

\* the catalogs by the number of membership entries: [n] holds those of at
\* most n
GroupMemberCatalogs ==
    [n \in 0..MaxMembers |->
        {c \in MemberCatalogs({g1, g2}, Packages) : MemberCount(c) <= n}]
CategoryMemberCatalogs ==
    [n \in 0..MaxMembers |->
        {c \in MemberCatalogs({c1, c2}, {g1, g2}) : MemberCount(c) <= n}]

\* the entities with names, descriptions and scalar attributes
Langs == {None, Some(en)}
Texts == {Some("a"), Some("b")}
AttrValues == {None, Some("true"), Some("false")}

Dicts(K, V) == UNION {[D -> V] : D \in SUBSET K}

EntryCount(data) ==
    Cardinality(DOMAIN data.names) + Cardinality(DOMAIN data.descriptions)
        + Cardinality(DOMAIN data.attrs)

Entities(ATTRS) ==
    {data \in [names : Dicts(Langs, Texts), descriptions : Dicts(Langs, Texts),
               attrs : Dicts(Range(ATTRS), AttrValues),
               members : {Some(<<>>)}] : EntryCount(data) <= MaxEntries}

\* a catalog with data under id (none when data is NoAttr) and, when
\* other is TRUE, an entity without entries under id2
EntityCatalog(id, data, id2, other) ==
    [i \in (IF data = NoAttr THEN {} ELSE {id}) \cup
           (IF other THEN {id2} ELSE {}) |->
        IF i = id THEN data[1] ELSE NodeWith(Some(<<>>))]

\* an entity or none, by the number of entries: upto[n] holds those of at
\* most n
OptEntryCount(o) == IF o = NoAttr THEN 0 ELSE EntryCount(o[1])

OptEntities(ATTRS) ==
    LET opt == {NoAttr} \cup {Some(e) : e \in Entities(ATTRS)}
    IN [n \in 0..MaxEntries |-> {o \in opt : OptEntryCount(o) <= n}]

GroupOptEntities == OptEntities(GroupsATTRS)
CategoryOptEntities == OptEntities(CategoriesATTRS)

\* the documents: [group |-> the <group> nodes, category |-> the <category>
\* nodes], in document order
TextElement(lang, text) ==
    [items |-> IF lang = None THEN <<>> ELSE <<<<"xml:lang", lang[1]>>>>,
     text |-> Some(text)]

GroupNodes ==
    {[id |-> g1, name |-> <<TextElement(None, "a")>>, description |-> <<>>,
      tags |-> [default |-> Some("true")],
      list |-> Some(<<[text |-> "vim", requires |-> None,
                       type |-> Some(mandatory)]>>)],
     [id |-> g1, name |-> <<TextElement(None, "b")>>,
      description |-> <<TextElement(Some(en), "a")>>,
      tags |-> EmptyDict,
      list |-> Some(<<[text |-> "vim", requires |-> None,
                       type |-> Some(default)]>>)],
     [id |-> g2,
      name |-> <<TextElement(Some(en), "a"), TextElement(Some(en), "b")>>,
      description |-> <<>>, tags |-> EmptyDict, list |-> Some(<<>>)],
     [id |-> g2, name |-> <<TextElement(None, "a")>>, description |-> <<>>,
      tags |-> EmptyDict, list |-> NoAttr]}

CategoryNodes ==
    {[id |-> c1, name |-> <<TextElement(None, "a")>>, description |-> <<>>,
      tags |-> [display_order |-> Some("1")], list |-> Some(<<g1>>)],
     [id |-> c1, name |-> <<>>,
      description |-> <<TextElement(None, "a"), TextElement(None, "b")>>,
      tags |-> EmptyDict, list |-> Some(<<g1, g2>>)]}

Documents ==
    {d \in [group : Lists(GroupNodes, MaxNodes),
            category : Lists(CategoryNodes, MaxNodes)] :
        Len(d.group) + Len(d.category) <= MaxNodes}

-----------------------------------------------------------------------------
(* Specifications *)

NothingRun ==
    /\ pkgacc = [side \in Sides |-> NoAttr]
    /\ grpacc = [side \in Sides |-> NoAttr]
    /\ access = NoAccess
    /\ groups_diff = NoAttr
    /\ packages_diff = NoAttr
    /\ categories_diff = NoAttr
    /\ grouplist_diff = NoAttr
    /\ stdout = NoAttr
    /\ error = ""

NoDocuments ==
    /\ source_xml = [group |-> <<>>, category |-> <<>>]
    /\ target_xml = [group |-> <<>>, category |-> <<>>]

\* the script, started on two documents
Init ==
    /\ pc = "source_groups"
    /\ source_xml \in Documents
    /\ target_xml \in Documents
    /\ source_groups = EmptyDict
    /\ target_groups = EmptyDict
    /\ source_categories = EmptyDict
    /\ target_categories = EmptyDict
    /\ NothingRun

Next ==
    \/ ParseSourceGroups
    \/ ParseTargetGroups
    \/ ParseSourceCategories
    \/ ParseTargetCategories
    \/ DiffGroups
    \/ DiffPackages
    \/ DiffCategories
    \/ DiffGrouplist
    \/ PrintReport

Spec == Init /\ [][Next]_vars

\* diff_comps applied to two parsed catalogs of one kind
InitEntities ==
    /\ NoDocuments
    /\ NothingRun
    /\ \/ /\ pc = "groups_diff"
          /\ \E s \in GroupOptEntities[MaxEntries] :
                \E t \in GroupOptEntities[MaxEntries - OptEntryCount(s)] :
                   \E b \in BOOLEAN \X BOOLEAN :
                      /\ source_groups = EntityCatalog(g1, s, g2, b[1])
                      /\ target_groups = EntityCatalog(g1, t, g2, b[2])
          /\ source_categories = EmptyDict
          /\ target_categories = EmptyDict
       \/ /\ pc = "categories_diff"
          /\ \E s \in CategoryOptEntities[MaxEntries] :
                \E t \in CategoryOptEntities[MaxEntries - OptEntryCount(s)] :
                   \E b \in BOOLEAN \X BOOLEAN :
                      /\ source_categories = EntityCatalog(c1, s, c2, b[1])
                      /\ target_categories = EntityCatalog(c1, t, c2, b[2])
          /\ source_groups = EmptyDict
          /\ target_groups = EmptyDict

NextEntities == DiffGroups \/ DiffCategories

SpecEntities == InitEntities /\ [][NextEntities]_vars

\* the index properties and diff_list applied to two parsed catalogs of one
\* kind
InitMembership ==
    /\ NoDocuments
    /\ NothingRun
    /\ \/ /\ pc = "use_groups"
          /\ source_groups \in GroupMemberCatalogs[MaxMembers]
          /\ target_groups \in
                GroupMemberCatalogs[MaxMembers - MemberCount(source_groups)]
          /\ source_categories = EmptyDict
          /\ target_categories = EmptyDict
       \/ /\ pc = "use_categories"
          /\ source_categories \in CategoryMemberCatalogs[MaxMembers]
          /\ target_categories \in
                CategoryMemberCatalogs[MaxMembers - MemberCount(source_categories)]
          /\ source_groups = EmptyDict
          /\ target_groups = EmptyDict

NextMembership ==
    \/ \E side \in Sides : AccessPackages(side)
    \/ \E side \in Sides : AccessGroups(side)
    \/ CallDiffPackages
    \/ CallDiffGrouplist

SpecMembership == InitMembership /\ [][NextMembership]_vars

-----------------------------------------------------------------------------
(* Properties *)

\* q lists the set X in strictly ascending order, each element once
IsSortedListOf(elem, q, X) ==
    /\ Len(q) = Cardinality(X)
    /\ Range(q) = X
    /\ \A i \in 1..(Len(q) - 1) : PyLess(elem, q[i], q[i + 1])

\* the facts of one tag in a membership record
FactsOf(record, tag) ==
    {i \in 1..Len(record) : DOMAIN record[i] = {tag}}

\* the reverse index as a function of the catalog's members: every member
\* key listed by some entity, mapped to the set of its qualifying tuples; an
\* entity without a list contributes nothing
Listed(catalog) ==
    UNION {{<<id, catalog[id].members[1][i]>> :
               i \in 1..Len(catalog[id].members[1])} :
           id \in {k \in DOMAIN catalog : catalog[k].members # NoAttr}}

PackageIndex(catalog) ==
    [name \in {e[2].name : e \in Listed(catalog)} |->
        {<<e[1], e[2].requires, e[2].type>> :
            e \in {f \in Listed(catalog) : f[2].name = name}}]

GroupIndex(catalog) ==
    [group \in {e[2] : e \in Listed(catalog)} |->
        {e[1] : e \in {f \in Listed(catalog) : f[2] = group}}]

\* the primary key of a qualifying tuple: the owning group id of a package
\* tuple, the category id itself for the category index
PrimaryKey(elem, t) == IF elem = "tuple" THEN t[1] ELSE t

\* the tuples of member m that are in source and not in target
Disappeared(S, T, m) ==
    IF m \notin DOMAIN S THEN {}
    ELSE IF m \notin DOMAIN T THEN S[m] ELSE S[m] \ T[m]

\* the two diff_list calls, once made: the mappings passed and the result
ListCalls ==
    (IF packages_diff = NoAttr \/ pkgacc.source = NoAttr \/ pkgacc.target = NoAttr
     THEN {}
     ELSE {[elem |-> "tuple", S |-> pkgacc.source[1], T |-> pkgacc.target[1],
            D |-> packages_diff[1]]})
    \cup
    (IF grouplist_diff = NoAttr \/ grpacc.source = NoAttr \/ grpacc.target = NoAttr
     THEN {}
     ELSE {[elem |-> "str", S |-> grpacc.source[1], T |-> grpacc.target[1],
            D |-> grouplist_diff[1]]})

\* C1: every 'removed' list of diff_list reports the primary key of each
\* disappeared tuple: the owning group id for the package index, the whole
\* category id for the category index, for a member only in source and for a
\* member in both
C1_RemovedPrimaryKeys ==
    \A c \in ListCalls :
        \A m \in DOMAIN c.S :
            Disappeared(c.S, c.T, m) # {} =>
                /\ m \in DOMAIN c.D
                /\ FactsOf(c.D[m], "removed") # {}
                /\ \A i \in FactsOf(c.D[m], "removed") :
                      Range(c.D[m][i].removed) =
                          {PrimaryKey(c.elem, t) : t \in Disappeared(c.S, c.T, m)}

\* C2: reading the reverse index of a catalog in which an entity has no
\* member list completes without error
C2_NoListIsNormal ==
    \A side \in Sides :
        /\ access.packages[side] # "KeyError"
        /\ access.groups[side] # "KeyError"

\* C3: a member in both mappings is in the result of diff_list exactly when
\* its tuple sets differ; its record is then {new: sorted(target - source)}
\* if that set is not empty, followed by {removed: ...} if source - target is
\* not empty, the removed list of a package carrying the group ids
C3_MemberInBoth ==
    \A c \in ListCalls :
        \A m \in DOMAIN c.S \cap DOMAIN c.T :
            LET add == c.T[m] \ c.S[m]
                rem == c.S[m] \ c.T[m]
            IN /\ m \in DOMAIN c.D <=> c.S[m] # c.T[m]
               /\ c.S[m] # c.T[m] =>
                    /\ Len(c.D[m]) = (IF add # {} THEN 1 ELSE 0)
                                       + (IF rem # {} THEN 1 ELSE 0)
                    /\ add # {} =>
                          /\ DOMAIN c.D[m][1] = {"new"}
                          /\ IsSortedListOf(c.elem, c.D[m][1].new, add)
                    /\ rem # {} =>
                          /\ DOMAIN c.D[m][Len(c.D[m])] = {"removed"}
                          /\ c.elem = "tuple" =>
                                Range(c.D[m][Len(c.D[m])].removed) =
                                    {t[1] : t \in rem}

\* C3: vim stays in g1 and its type changes from mandatory to default
C3_Witness ==
    /\ packages_diff # NoAttr
    /\ pkgacc.source = Some("vim" :> {<<g1, None, Some(mandatory)>>})
    /\ pkgacc.target = Some("vim" :> {<<g1, None, Some(default)>>})
    /\ packages_diff[1] =
          "vim" :> <<"new" :> <<<<g1, None, Some(default)>>>>,
                     "removed" :> <<g1>>>>

\* C7: for every member m, source[m] with the tuples under 'new' equals
\* target[m] with the tuples whose primary key is under 'removed' (a
\* missing key is the empty set)
C7_SetDiffCompleteness ==
    \A c \in ListCalls :
        \A m \in DOMAIN c.S \cup DOMAIN c.T :
            LET record == IF m \in DOMAIN c.D THEN c.D[m] ELSE <<>>
                source == IF m \in DOMAIN c.S THEN c.S[m] ELSE {}
                target == IF m \in DOMAIN c.T THEN c.T[m] ELSE {}
                new == UNION {Range(record[i].new) : i \in FactsOf(record, "new")}
                keys == UNION {Range(record[i].removed) :
                                  i \in FactsOf(record, "removed")}
                removed == {t \in source : PrimaryKey(c.elem, t) \in keys}
            IN source \cup new = target \cup removed

\* C8: once read, the reverse index of a catalog is the function of the
\* catalog's members, duplicates collapsed; every later read returns it,
\* and diff_list leaves it as it is, with no member of an empty tuple set
C8_IndexMemoized ==
    \A side \in Sides :
        /\ access.packages[side] = "returned" =>
              pkgacc[side] = Some(PackageIndex(IF side = "source"
                                               THEN source_groups
                                               ELSE target_groups))
        /\ access.groups[side] = "returned" =>
              grpacc[side] = Some(GroupIndex(IF side = "source"
                                             THEN source_categories
                                             ELSE target_categories))

\* C10: over the package index a 'removed' list has one entry per
\* disappeared tuple: as many entries as tuples, a group id once for each
\* of its tuples
C10_RemovedNotDeduplicated ==
    \A c \in {k \in ListCalls : k.elem = "tuple"} :
        \A m \in DOMAIN c.S :
            Disappeared(c.S, c.T, m) # {} =>
                /\ m \in DOMAIN c.D
                /\ Cardinality(FactsOf(c.D[m], "removed")) = 1
                /\ \A i \in FactsOf(c.D[m], "removed") :
                      LET q == c.D[m][i].removed
                      IN /\ Len(q) = Cardinality(Disappeared(c.S, c.T, m))
                         /\ \A g \in {g1, g2} :
                               Cardinality({j \in 1..Len(q) : q[j] = g}) =
                                   Cardinality({t \in Disappeared(c.S, c.T, m) :
                                                   t[1] = g})

\* C10: vim was in g1 as mandatory and as default, and is in no group now
C10_Witness ==
    /\ packages_diff # NoAttr
    /\ pkgacc.source = Some("vim" :> {<<g1, None, Some(mandatory)>>,
                                      <<g1, None, Some(default)>>})
    /\ pkgacc.target = Some(EmptyDict)
    /\ packages_diff[1] = "vim" :> <<"removed" :> <<g1, g1>>>>

\* the two diff_comps calls, once made: the catalogs passed, the recognized
\* attributes and the result
EntityCalls ==
    (IF groups_diff = NoAttr THEN {}
     ELSE {[source |-> source_groups, target |-> target_groups,
            attributes |-> GroupsATTRS, D |-> groups_diff[1]]})
    \cup
    (IF categories_diff = NoAttr THEN {}
     ELSE {[source |-> source_categories, target |-> target_categories,
            attributes |-> CategoriesATTRS, D |-> categories_diff[1]]})

\* the value of a recognized attribute, None when it is not set
AttrValue(data, attr) ==
    IF attr \in DOMAIN data.attrs THEN data.attrs[attr] ELSE None

\* C4: the record of an id in both catalogs is exactly the three facts
\* [attribute-change map, names diff, descriptions diff]; a recognized
\* attribute is a key of the map exactly when its source and target values
\* (or not-set) differ, mapped to the target value, None when cleared
C4_RecordOfExistingId ==
    \A c \in EntityCalls :
        \A id \in DOMAIN c.source \cap DOMAIN c.target :
            /\ id \in DOMAIN c.D
            /\ Len(c.D[id]) = 3
            /\ DOMAIN c.D[id][1] =
                  {attr \in Range(c.attributes) :
                      AttrValue(c.source[id], attr) # AttrValue(c.target[id], attr)}
            /\ \A attr \in DOMAIN c.D[id][1] :
                  c.D[id][1][attr] = AttrValue(c.target[id], attr)
            /\ DOMAIN c.D[id][2] = {"names"}
            /\ DOMAIN c.D[id][2].names = {"new", "removed"}
            /\ DOMAIN c.D[id][3] = {"descriptions"}
            /\ DOMAIN c.D[id][3].descriptions = {"new", "removed"}

\* C4: g1 has default "true" in the source and no default in the target
C4_Witness ==
    /\ groups_diff # NoAttr
    /\ g1 \in DOMAIN source_groups \cap DOMAIN target_groups
    /\ source_groups[g1].attrs = [default |-> Some("true")]
    /\ target_groups[g1].attrs = EmptyDict
    /\ Len(groups_diff[1][g1]) = 3
    /\ groups_diff[1][g1][1] = [default |-> None]

\* C5: for names and descriptions of an id in both catalogs, 'new' is the
\* sorted duplicate-free list of the language keys only in the target or in
\* both with different text, 'removed' the sorted list of the keys only in
\* the source; nothing else is reported
C5_TextMapDiff ==
    \A c \in EntityCalls :
        \A id \in DOMAIN c.source \cap DOMAIN c.target :
            /\ id \in DOMAIN c.D
            /\ Len(c.D[id]) = 3
            /\ \A n \in {2, 3} :
                  LET tag == IF n = 2 THEN "names" ELSE "descriptions"
                      s == c.source[id][tag]
                      t == c.target[id][tag]
                  IN /\ DOMAIN c.D[id][n] = {tag}
                     /\ DOMAIN c.D[id][n][tag] = {"new", "removed"}
                     /\ IsSortedListOf("opt", c.D[id][n][tag].new,
                           {k \in DOMAIN t :
                               k \notin DOMAIN s \/ s[k] # t[k]})
                     /\ IsSortedListOf("opt", c.D[id][n][tag].removed,
                           DOMAIN s \ DOMAIN t)

\* C5: the name without language changed, the name "en" was added
C5_Witness ==
    /\ groups_diff # NoAttr
    /\ g1 \in DOMAIN source_groups \cap DOMAIN target_groups
    /\ source_groups[g1].names = (None :> Some("a"))
    /\ target_groups[g1].names = (None :> Some("b")) @@ (Some(en) :> Some("a"))
    /\ Len(groups_diff[1][g1]) = 3
    /\ groups_diff[1][g1][2] =
          [names |-> [new |-> <<None, Some(en)>>, removed |-> <<>>]]

\* the ids whose record is exactly [tag]
Tagged(D, tag) == {id \in DOMAIN D : D[id] = <<tag>>}

\* C6: an id only in the target has the record ["new"], an id only in the
\* source the record ["removed"]; the ids "removed" by diff_comps(source,
\* target) are the ids "new" by diff_comps(target, source)
C6_ExistenceTags ==
    \A c \in EntityCalls :
        /\ \A id \in DOMAIN c.target \ DOMAIN c.source :
              id \in DOMAIN c.D /\ c.D[id] = <<"new">>
        /\ \A id \in DOMAIN c.source \ DOMAIN c.target :
              id \in DOMAIN c.D /\ c.D[id] = <<"removed">>
        /\ Tagged(c.D, "removed") =
              Tagged(diff_comps(c.target, c.source, c.attributes), "new")
        /\ Tagged(c.D, "removed") = DOMAIN c.source \ DOMAIN c.target

\* C6: g1 is only in the source, g2 only in the target
C6_Witness ==
    /\ groups_diff # NoAttr
    /\ DOMAIN source_groups = {g1}
    /\ DOMAIN target_groups = {g2}
    /\ groups_diff[1][g1] = <<"removed">>
    /\ groups_diff[1][g2] = <<"new">>

\* a node list in which a node repeats the id of an earlier one, or carries
\* two names or two descriptions of one language (or both without language)
Lang(element) ==
    IF element.items # <<>> THEN Some(element.items[1][2]) ELSE None

RepeatsLang(elements) ==
    \E i, j \in 1..Len(elements) : i < j /\ Lang(elements[i]) = Lang(elements[j])

DuplicateAt(nodes, j) ==
    \/ RepeatsLang(nodes[j].name)
    \/ RepeatsLang(nodes[j].description)
    \/ \E i \in 1..(j - 1) : nodes[i].id = nodes[j].id

HasDuplicate(nodes) == \E j \in 1..Len(nodes) : DuplicateAt(nodes, j)

\* the ids of the nodes before the first duplicate
BeforeFirstDuplicate(nodes) ==
    {nodes[i].id : i \in {k \in 1..Len(nodes) :
                             \A j \in 1..k : ~DuplicateAt(nodes, j)}}

\* C9: a document with a duplicate entity id or a duplicate language tag
\* ends the run with an error at the first duplicate: the catalog being
\* built holds the nodes before it, no diff is computed, nothing is printed
C9_DuplicateAborts ==
    LET lists == <<source_xml.group, target_xml.group,
                   source_xml.category, target_xml.category>>
        catalogs == <<source_groups, target_groups,
                      source_categories, target_categories>>
        steps == <<"source_groups", "target_groups",
                   "source_categories", "target_categories">>
    IN \A n \in 1..4 :
          HasDuplicate(lists[n]) =>
              /\ pc \in {steps[k] : k \in 1..n} \cup {"aborted"}
              /\ groups_diff = NoAttr
              /\ packages_diff = NoAttr
              /\ categories_diff = NoAttr
              /\ grouplist_diff = NoAttr
              /\ stdout = NoAttr
              /\ pc = "aborted" =>
                    /\ error = "AssertionError"
                    /\ (\A k \in 1..(n - 1) : ~HasDuplicate(lists[k])) =>
                          DOMAIN catalogs[n] = BeforeFirstDuplicate(lists[n])

\* C9: the target document has two descriptions without language in its
\* second category and the run ended there
C9_Witness ==
    /\ pc = "aborted"
    /\ error = "AssertionError"
    /\ ~HasDuplicate(source_xml.group)
    /\ ~HasDuplicate(target_xml.group)
    /\ ~HasDuplicate(source_xml.category)
    /\ Len(target_xml.category) = 2
    /\ ~DuplicateAt(target_xml.category, 1)
    /\ RepeatsLang(target_xml.category[2].description)
    /\ Lang(target_xml.category[2].description[1]) = None
    /\ stdout = NoAttr

====
